---------------------------- MODULE Spec2Model ----------------------------
(***************************************************************************)
(* A model of the protoplanetary N-body simulation: the Bevy systems of    *)
(* src/src/planet.rs, src/src/planet/collisions.rs, src/src/ui.rs and      *)
(* src/src/ui/planet_spawning.rs, run frame by frame in the schedules the  *)
(* plugins register them in.                                               *)
(*                                                                         *)
(* Numbers.  An f32 is modelled by an integer or the value NaN; a division *)
(* truncates toward zero (the stand-in for f32 rounding, sign-symmetric    *)
(* like it) and a division by zero gives NaN, which every operation        *)
(* propagates and every comparison answers FALSE to.  A Vec3 is a triple.  *)
(***************************************************************************)
EXTENDS Integers, Sequences, FiniteSets, TLC

(***************************************************************************)
(* Bounds of the model.                                                    *)
(***************************************************************************)
\* Frames simulated from a startup batch of planets, and from none.
MaxFrames == 2
MaxFramesUi == 4
\* SpawnPlanetEvents that spawn_planets sends at startup (its N).
NumStartup == 3
\* The most bodies alive or requested at once: input that would request
\* one more is not given.
MaxBodies == 4
MaxBodiesUi == 2

(***************************************************************************)
(* f32 arithmetic.                                                         *)
(***************************************************************************)
NaN == -999999999

IsNaN(a) == a = NaN

FAdd(a, b) == IF IsNaN(a) \/ IsNaN(b) THEN NaN ELSE a + b

FSub(a, b) == IF IsNaN(a) \/ IsNaN(b) THEN NaN ELSE a - b

FMul(a, b) == IF IsNaN(a) \/ IsNaN(b) THEN NaN ELSE a * b

\* a / b.  Divisors of the program are masses and sums of squares, never
\* negative; a zero divisor only ever meets a dividend that is 0 or NaN.
FDiv(a, b) ==
    IF IsNaN(a) \/ IsNaN(b) \/ b = 0 THEN NaN
    ELSE IF a >= 0 THEN a \div b ELSE -((-a) \div b)

FLt(a, b) == ~IsNaN(a) /\ ~IsNaN(b) /\ a < b

FNeg(a) == IF IsNaN(a) THEN NaN ELSE -a

\* The whole part of the square root of n, 0 <= n < 2^20: its digits in
\* base 32, the high one first.
Root(n) ==
    LET hi == CHOOSE a \in 0..31 :
                  (32 * a) * (32 * a) <= n /\ (32 * a + 32) * (32 * a + 32) > n
    IN  CHOOSE r \in (32 * hi)..(32 * hi + 31) :
            r * r <= n /\ (r + 1) * (r + 1) > n

\* f32::sqrt, to the unit below.
FSqrt(n) ==
    IF IsNaN(n) \/ n < 0 THEN NaN ELSE CHOOSE r \in {Root(v) : v \in {n}} : TRUE

\* f32::cbrt, to the unit below.
FCbrt(n) ==
    IF IsNaN(n) THEN NaN
    ELSE CHOOSE r \in 0..40 : r * r * r <= n /\ (r + 1) * (r + 1) * (r + 1) > n

(***************************************************************************)
(* Vec3.                                                                   *)
(***************************************************************************)
ZERO == <<0, 0, 0>>

VAdd(u, v) == <<FAdd(u[1], v[1]), FAdd(u[2], v[2]), FAdd(u[3], v[3])>>

VSub(u, v) == <<FSub(u[1], v[1]), FSub(u[2], v[2]), FSub(u[3], v[3])>>

VScale(s, v) == <<FMul(s, v[1]), FMul(s, v[2]), FMul(s, v[3])>>

VDiv(v, s) == <<FDiv(v[1], s), FDiv(v[2], s), FDiv(v[3], s)>>

VNeg(v) == <<FNeg(v[1]), FNeg(v[2]), FNeg(v[3])>>

length_squared(v) ==
    FAdd(FAdd(FMul(v[1], v[1]), FMul(v[2], v[2])), FMul(v[3], v[3]))

length(v) == FSqrt(length_squared(v))

VHasNaN(v) == IsNaN(v[1]) \/ IsNaN(v[2]) \/ IsNaN(v[3])


(***************************************************************************)
(* Option<T>: None is the empty tuple, Some(x) the tuple of x.             *)
(***************************************************************************)
None == <<>>

Some(x) == <<x>>

unwrap(o) == o[1]

(***************************************************************************)
(* Constants (planet.rs:15-30).  grav_const and min_attraction_dist are    *)
(* f32 fields the Dev Menu edits at run time within 0..=f32::MAX           *)
(* (ui.rs:143-172); their defaults 0.2 and 0.001 lie below the unit of     *)
(* this model, which runs with settings of whole units.                    *)
(***************************************************************************)
mouse_dot_mass == 2000

grav_const == 20

min_attraction_dist == 1

SUN_MASS == 1000

\* Draws of thread_rng for one default event: a position
\* rng.gen_range(50.0..500.0) * (rotation of X about Y + h * Y) and a mass
\* 50.0 * rng.gen_range(0.0..1.0) + 2.0.
RandomDraws ==
    { [pos |-> <<50, 0, 0>>, mass |-> 5],
      [pos |-> <<55, 0, 0>>, mass |-> 4],
      [pos |-> <<60, 0, 0>>, mass |-> 5] }

\* Draws of rng.gen_range(50.0..600.0) * unit vector (ui.rs:115-121).
RandomUiPositions == {<<0, 0, 60>>}

\* Rays under the cursor: where the ray meets the ecliptic plane, how high
\* above it the ray meets the plane through the chosen ecliptic position,
\* and how far from the chosen position it meets the plane through it.
MouseRays ==
    { [ground |-> <<20, 0, 0>>, lift |-> 0, reach |-> d] : d \in {0, 4} }

\* Where the MouseDot entity sits when there is one.
MouseDotPositions == {<<0, 40, 0>>}

radius_from_mass(mass) == FMul(3, FCbrt(mass))

mass_from_radius(radius) == FDiv(FMul(FMul(radius, radius), radius), 27)

attraction_force(sat_mass, sat_pos, parent_mass, parent_pos, g, min_dist) ==
    LET sat_to_parent == VSub(parent_pos, sat_pos)
        len           == length(sat_to_parent)
        denom         == FAdd(length_squared(sat_to_parent), min_dist)
        gmm           == FMul(FMul(g, sat_mass), parent_mass)
    IN  IF VHasNaN(sat_to_parent) THEN <<NaN, NaN, NaN>>
        ELSE IF len = 0 THEN VDiv(ZERO, denom)
        ELSE \* g * m * M * (d / |d|) / (|d|^2 + min_dist)
             VDiv(VScale(gmm, sat_to_parent), FMul(len, denom))

\* The velocity spawn_planet_system gives a planet whose event carries none.
orbit_velocity(mass, pos) ==
    LET len         == length(pos)
        orbit_speed == FDiv(FSqrt(FDiv(grav_const * SUN_MASS * mass, len)), 40)
    IN  IF IsNaN(len) \/ len = 0 THEN <<NaN, NaN, NaN>>
        ELSE \* -orbit_speed * (pos / |pos|) x Y
             << FDiv(FMul(orbit_speed, pos[3]), len),
                0,
                FDiv(FMul(FNeg(orbit_speed), pos[1]), len) >>

(***************************************************************************)
(* State.                                                                  *)
(***************************************************************************)
VARIABLES
    frame,             \* frames begun so far
    stage,             \* the schedule about to run or running
    ran,               \* systems of the running schedule that have run
    input,             \* this frame's keyboard, mouse button and mouse ray
    bodies,            \* the Planet entities, in query iteration order
    next_entity,       \* the next Entity id to allocate
    events,            \* Events<SpawnPlanetEvent> not yet read
    collision_groups,  \* CollisionGroups.map
    commands,          \* despawns queued on PostUpdate's Commands
    spawn_mode,        \* the PlanetSpawnMode resource
    right_panel_open,  \* UiState.right_panel_open
    mouse_dot,         \* the MouseDot entity's translation, if it exists
    crashed,           \* a system panicked
    pairs_log,         \* what nbody_system did for each pair, this frame
    resolver_log,      \* the groups the resolver last read, what it wrote
    mass_at_update,    \* sum of live masses when Update began, this frame
    done,              \* the systems that have run so far, this frame
    mode_at_frame      \* the PlanetSpawnMode when this frame began

vars == << frame, stage, ran, input, bodies, next_entity, events,
           collision_groups, commands, spawn_mode, right_panel_open,
           mouse_dot, crashed, pairs_log, resolver_log, mass_at_update,
           done, mode_at_frame >>

NoInput == [key |-> "none", left |-> "up", ray |-> None, click |-> "none"]

ModeNothing ==
    [tag |-> "Nothing", chosen_ecliptic_pos |-> ZERO, chosen_pos |-> ZERO]

SpawnPlanetEvent_default == [pos |-> None, vel |-> None, mass |-> None]

\* spawn_sun: a PointLightBundle entity, so without a Handle<Mesh> of its
\* own (the mesh is on its child).
Sun ==
    [ entity |-> 0, mesh |-> FALSE, mass |-> SUN_MASS,
      radius |-> radius_from_mass(SUN_MASS),
      vel |-> ZERO, pos |-> ZERO, force |-> ZERO ]

RECURSIVE SumMass(_)
SumMass(bs) == IF bs = <<>> THEN 0 ELSE Head(bs).mass + SumMass(Tail(bs))

\* The state after the Startup schedule: spawn_sun has spawned the Sun and
\* spawn_planets has sent its batch of default events.
InitWith(n) ==
    /\ frame = 0
    /\ stage = "First"
    /\ ran = {}
    /\ input = NoInput
    /\ bodies = <<Sun>>
    /\ next_entity = 1
    /\ events = [i \in 1..n |-> SpawnPlanetEvent_default]
    /\ collision_groups = <<>>
    /\ commands = <<>>
    /\ spawn_mode = ModeNothing
    /\ right_panel_open = FALSE
    /\ mouse_dot \in {None} \cup {Some(p) : p \in MouseDotPositions}
    /\ crashed = FALSE
    /\ pairs_log = <<>>
    /\ resolver_log = [groups |-> <<>>, written |-> <<>>]
    /\ mass_at_update = SUN_MASS
    /\ done = {}
    /\ mode_at_frame = ModeNothing

Init == InitWith(NumStartup)


(***************************************************************************)
(* Input gathering, before the schedules of a frame run.                   *)
(***************************************************************************)
\* What one frame can bring: at most one key event (just_pressed of R, S,
\* P or Escape, or "Rup", just_released of R), the left mouse button up,
\* held or just released, the mouse ray (None: cursor off the window) and,
\* with a release of the left button over the Dev Menu, the click of one
\* of its buttons.
Inputs ==
    { [key |-> k, left |-> "up", ray |-> None, click |-> "none"] :
          k \in {"none", "R", "Rup", "S", "P", "Escape"} }
    \cup { [key |-> "none", left |-> "held", ray |-> None, click |-> "none"] }
    \cup { [key |-> k, left |-> "released", ray |-> r, click |-> "none"] :
          k \in {"none", "S"}, r \in {None} \cup {Some(m) : m \in MouseRays} }
    \cup { [key |-> "none", left |-> "released", ray |-> Some(m), click |-> c] :
          m \in MouseRays, c \in {"Close", "Random", "SpawnAtMouse"} }

\* Whether this frame's input can make a system send a SpawnPlanetEvent.
MaySpawn(in) ==
    \/ in.key \in {"R", "Rup"} \/ in.click = "Random"
    \/ in.left = "released" /\ spawn_mode.tag = "RadiusSelect"

BeginFrameWith(max_frames, inputs, max_bodies) ==
    /\ ~crashed
    /\ stage = "First"
    /\ frame < max_frames
    /\ \E in \in inputs :
          /\ MaySpawn(in) => Len(bodies) + Len(events) < max_bodies
          /\ input' = in
    /\ frame' = frame + 1
    /\ stage' = "PreUpdate"
    /\ done' = {}
    /\ mode_at_frame' = spawn_mode
    /\ UNCHANGED << ran, bodies, next_entity, events, collision_groups,
                    commands, spawn_mode, right_panel_open, mouse_dot,
                    crashed, pairs_log, mass_at_update,
                    resolver_log >>

\* Frames in which the user at most holds the left button.
BeginFrame ==
    BeginFrameWith(MaxFrames,
                   {in \in Inputs : in.key = "none" /\ in.left # "released"},
                   MaxBodies)

\* Frames in which the user types and clicks.
BeginFrameUi ==
    BeginFrameWith(MaxFramesUi,
                   {in \in Inputs : in.key # "Rup" /\ in.left # "held"
                                       /\ (in.click # "none" => right_panel_open)},
                   MaxBodiesUi)

(***************************************************************************)
(* PreUpdate: spawn_planet_system (planet.rs:119-182).                     *)
(***************************************************************************)
\* The body one event spawns, with the random draws it would use.
SpawnedPlanet(event, rand, entity) ==
    LET pos  == IF event.pos = None THEN rand.pos ELSE unwrap(event.pos)
        mass == IF event.mass = None THEN rand.mass ELSE unwrap(event.mass)
        vel  == IF event.vel = None THEN orbit_velocity(mass, pos)
                ELSE unwrap(event.vel)
    IN  [ entity |-> entity, mesh |-> TRUE, mass |-> mass,
          radius |-> radius_from_mass(mass),
          vel |-> vel, pos |-> pos, force |-> ZERO ]

\* Every list of bodies the pending events can leave, over the draws of
\* thread_rng.
RECURSIVE SpawnOutcomes(_, _, _)
SpawnOutcomes(bs, evs, entity) ==
    IF evs = <<>> THEN {bs}
    ELSE UNION { SpawnOutcomes(
                     Append(bs, SpawnedPlanet(Head(evs), rand, entity)),
                     Tail(evs), entity + 1) : rand \in RandomDraws }

spawn_planet_system ==
    /\ ~crashed
    /\ stage = "PreUpdate"
    /\ bodies' \in SpawnOutcomes(bodies, events, next_entity)
    /\ next_entity' = next_entity + Len(events)
    /\ events' = <<>>
    /\ mass_at_update' = SumMass(bodies')
    /\ stage' = "Update"
    /\ ran' = {}
    /\ UNCHANGED << frame, input, collision_groups, commands, spawn_mode,
                    right_panel_open, mouse_dot, crashed, pairs_log,
                    resolver_log, mode_at_frame, done >>


(***************************************************************************)
(* Update: systems registered without ordering run once each, in an order  *)
(* the scheduler picks.                                                    *)
(***************************************************************************)
\* UpdateSystems with mouse_attraction_system registered elsewhere.
UpdateSystems_without_attractor ==
    { "nbody_system", "root_ui_system", "planet_spawn_interaction_system" }

UpdateSystems ==
    { "nbody_system", "mouse_attraction_system", "root_ui_system",
      "planet_spawn_interaction_system" }

PostUpdateSystems == { "physics_system", "collision_resolution_system" }

\* System sys of the running schedule `of` has not run yet this frame.
Runnable(of, sys) == ~crashed /\ stage = of /\ sys \notin ran

\* System sys finishes: the schedule ends when its last system has run.
Finish(of, sys, all, then) ==
    /\ done' = done \cup {sys}
    /\ ran' = IF ran \cup {sys} = all THEN {} ELSE ran \cup {sys}
    /\ stage' = IF ran \cup {sys} = all THEN then ELSE of

(***************************************************************************)
(* nbody_system (planet.rs:220-280).                                       *)
(***************************************************************************)
PlanetInfo(b) ==
    [entity |-> b.entity, mass |-> b.mass, vel |-> b.vel, pos |-> b.pos]

\* iter_combinations with each row also paired with itself.
RECURSIVE iter_combinations_with_self(_, _, _)
iter_combinations_with_self(i, j, n) ==
    IF i > n THEN <<>>
    ELSE IF j > n THEN iter_combinations_with_self(i + 1, i + 1, n)
    ELSE <<(<<i, j>>)>> \o iter_combinations_with_self(i, j + 1, n)

\* Query::iter_combinations_mut: the index pairs <<i, j>>, i < j, of a
\* query of n rows, in the order fetch_next yields them from <<i, j>> on.
RECURSIVE iter_combinations(_, _, _)
iter_combinations(i, j, n) ==
    IF i >= n THEN <<>>
    ELSE IF j > n THEN iter_combinations(i + 1, i + 2, n)
    ELSE <<(<<i, j>>)>> \o iter_combinations(i, j + 1, n)

\* collision_groups.map.entry(larger.entity).or_insert(..).members.push(..)
RECURSIVE GroupIndex(_, _, _)
GroupIndex(groups, entity, k) ==
    IF k > Len(groups) THEN 0
    ELSE IF groups[k].largest.entity = entity THEN k
    ELSE GroupIndex(groups, entity, k + 1)

PushMember(groups, larger, smaller) ==
    LET k == GroupIndex(groups, larger.entity, 1)
    IN  IF k = 0
        THEN Append(groups, [largest |-> larger, members |-> <<smaller>>])
        ELSE [groups EXCEPT ![k].members = Append(@, smaller)]

\* larger_smaller with the first body taken on equal masses.
larger_smaller_first_on_tie(p1, p2) ==
    IF p1.mass >= p2.mass THEN <<p1, p2>> ELSE <<p2, p1>>

\* let (larger, smaller) = if m1.0 > m2.0 { (p1, p2) } else { (p2, p1) };
larger_smaller(p1, p2) ==
    IF p1.mass > p2.mass THEN <<p1, p2>> ELSE <<p2, p1>>

\* nbody_pair with the `continue` of the collision branch left out.
nbody_pair_without_continue(st, i, j) ==
    LET b1            == st.bs[i]
        b2            == st.bs[j]
        sat_to_parent == VSub(b2.pos, b1.pos)
        radii_sum     == FAdd(b1.radius, b2.radius)
        p1            == PlanetInfo(b1)
        p2            == PlanetInfo(b2)
        larger        == larger_smaller(p1, p2)[1]
        smaller       == larger_smaller(p1, p2)[2]
        force         == attraction_force(b1.mass, b1.pos, b2.mass, b2.pos,
                                          grav_const, min_attraction_dist)
        add1          == VDiv(force, b1.mass)
        add2          == VNeg(VDiv(force, b2.mass))
    IN  IF FLt(length(sat_to_parent), radii_sum)
        THEN [ bs     |-> [st.bs EXCEPT ![i].force = VAdd(@, add1),
                                        ![j].force = VAdd(@, add2)],
               groups |-> PushMember(st.groups, larger, smaller),
               log    |-> Append(st.log,
                            [ e1 |-> b1.entity, e2 |-> b2.entity,
                              collided |-> TRUE,
                              add1 |-> ZERO, add2 |-> ZERO ]) ]
        ELSE [ bs     |-> [st.bs EXCEPT ![i].force = VAdd(@, add1),
                                        ![j].force = VAdd(@, add2)],
               groups |-> st.groups,
               log    |-> Append(st.log,
                            [ e1 |-> b1.entity, e2 |-> b2.entity,
                              collided |-> FALSE,
                              add1 |-> add1, add2 |-> add2 ]) ]

\* The body of the while loop for the pair of rows <<i, j>>; st holds the
\* bodies, the group map and the log of pairs so far.
nbody_pair(st, i, j) ==
    LET b1            == st.bs[i]
        b2            == st.bs[j]
        sat_to_parent == VSub(b2.pos, b1.pos)
        radii_sum     == FAdd(b1.radius, b2.radius)
        p1            == PlanetInfo(b1)
        p2            == PlanetInfo(b2)
        larger        == larger_smaller(p1, p2)[1]
        smaller       == larger_smaller(p1, p2)[2]
        force         == attraction_force(b1.mass, b1.pos, b2.mass, b2.pos,
                                          grav_const, min_attraction_dist)
        add1          == VDiv(force, b1.mass)
        add2          == VNeg(VDiv(force, b2.mass))
    IN  IF FLt(length(sat_to_parent), radii_sum)
        THEN [ bs     |-> st.bs,
               groups |-> PushMember(st.groups, larger, smaller),
               log    |-> Append(st.log,
                            [ e1 |-> b1.entity, e2 |-> b2.entity,
                              collided |-> TRUE,
                              add1 |-> ZERO, add2 |-> ZERO ]) ]
        ELSE [ bs     |-> [st.bs EXCEPT ![i].force = VAdd(@, add1),
                                        ![j].force = VAdd(@, add2)],
               groups |-> st.groups,
               log    |-> Append(st.log,
                            [ e1 |-> b1.entity, e2 |-> b2.entity,
                              collided |-> FALSE,
                              add1 |-> add1, add2 |-> add2 ]) ]

\* The while loop from the k-th pair on.  (The state after a pair is
\* bound as a value before the loop goes on.)
RECURSIVE nbody_loop(_, _, _)
nbody_loop(st, pairs, k) ==
    IF k > Len(pairs) THEN st
    ELSE CHOOSE out \in { nbody_loop(nx, pairs, k + 1) :
                              nx \in {nbody_pair(st, pairs[k][1], pairs[k][2])} }
             : TRUE

nbody_system ==
    /\ Runnable("Update", "nbody_system")
    /\ LET st == nbody_loop(
                     [bs |-> bodies, groups |-> collision_groups, log |-> <<>>],
                     iter_combinations(1, 2, Len(bodies)), 1)
       IN  /\ bodies' = st.bs
           /\ collision_groups' = st.groups
           /\ pairs_log' = st.log
    /\ Finish("Update", "nbody_system", UpdateSystems, "PostUpdate")
    /\ UNCHANGED << frame, input, next_entity, events, commands, spawn_mode,
                    right_panel_open, mouse_dot, crashed, mass_at_update,
                    resolver_log, mode_at_frame >>

(***************************************************************************)
(* mouse_attraction_system (planet.rs:282-307).                            *)
(***************************************************************************)
mouse_attracted(b, mouse_pos) ==
    [b EXCEPT !.force =
        VAdd(@, VDiv(attraction_force(b.mass, b.pos, mouse_dot_mass, mouse_pos,
                                      grav_const, min_attraction_dist),
                     b.mass))]

mouse_attraction_system ==
    /\ Runnable("Update", "mouse_attraction_system")
    /\ IF input.left # "held"
       THEN UNCHANGED << bodies, crashed >>
       ELSE IF mouse_dot = None
       THEN \* q_mouse.single() panics
            /\ crashed' = TRUE
            /\ UNCHANGED bodies
       ELSE /\ bodies' = [k \in 1..Len(bodies) |->
                             mouse_attracted(bodies[k], unwrap(mouse_dot))]
            /\ UNCHANGED crashed
    /\ Finish("Update", "mouse_attraction_system", UpdateSystems, "PostUpdate")
    /\ UNCHANGED << frame, input, next_entity, events, collision_groups,
                    commands, spawn_mode, right_panel_open, mouse_dot,
                    pairs_log, mass_at_update,
                    resolver_log, mode_at_frame >>


(***************************************************************************)
(* root_ui_system (ui.rs:59-190).                                          *)
(***************************************************************************)
ModeEclipticPosSelect ==
    [ tag |-> "EclipticPosSelect", chosen_ecliptic_pos |-> ZERO,
      chosen_pos |-> ZERO ]

ModeHeightSelect(ecliptic) ==
    [ tag |-> "HeightSelect", chosen_ecliptic_pos |-> ecliptic,
      chosen_pos |-> ZERO ]

ModeRadiusSelect(ecliptic, pos) ==
    [ tag |-> "RadiusSelect", chosen_ecliptic_pos |-> ecliptic,
      chosen_pos |-> pos ]

\* PlanetSpawnMode::go_back (planet_spawning.rs:40-52)
go_back(mode) ==
    IF mode.tag = "Nothing" THEN ModeNothing
    ELSE IF mode.tag = "EclipticPosSelect" THEN ModeNothing
    ELSE IF mode.tag = "HeightSelect" THEN ModeEclipticPosSelect
    ELSE ModeHeightSelect(mode.chosen_ecliptic_pos)

root_ui_system ==
    /\ Runnable("Update", "root_ui_system")
    /\ LET panel   == IF input.key = "P" THEN ~right_panel_open
                      ELSE right_panel_open
           sent1   == IF input.key = "R"
                      THEN Append(events, SpawnPlanetEvent_default)
                      ELSE events
           mode1   == IF input.key = "S" THEN ModeEclipticPosSelect
                      ELSE spawn_mode
           \* inside the panel's closure, run while the panel is open
           mode2   == IF panel /\ input.key = "Escape"
                      THEN go_back(mode1) ELSE mode1
       IN  /\ right_panel_open' = (panel /\ input.click # "Close")
           /\ IF panel /\ (input.click = "Random" \/ input.key = "Rup")
              THEN \E p \in RandomUiPositions :
                      events' = Append(sent1,
                          [pos |-> Some(p), vel |-> None, mass |-> None])
              ELSE events' = sent1
           /\ spawn_mode' = IF panel /\ input.click = "SpawnAtMouse"
                                  /\ mode2.tag = "Nothing"
                            THEN ModeEclipticPosSelect ELSE mode2
    /\ Finish("Update", "root_ui_system", UpdateSystems, "PostUpdate")
    /\ UNCHANGED << frame, input, bodies, next_entity, collision_groups,
                    commands, mouse_dot, crashed, pairs_log, mass_at_update,
                    resolver_log, mode_at_frame >>

(***************************************************************************)
(* planet_spawn_interaction_system (planet_spawning.rs:55-168).            *)
(***************************************************************************)
HasSun == \E k \in 1..Len(bodies) : ~bodies[k].mesh

\* 2.5 * |mouse_tsl - chosen_pos|.sqrt()
drag_radius(reach) == FDiv(FMul(5, FSqrt(reach)), 2)

planet_spawn_interaction_system ==
    /\ Runnable("Update", "planet_spawn_interaction_system")
    /\ IF spawn_mode.tag = "Nothing"
       THEN UNCHANGED << spawn_mode, events, crashed >>
       ELSE IF ~HasSun
       THEN \* q_sun.single() panics
            /\ crashed' = TRUE
            /\ UNCHANGED << spawn_mode, events >>
       ELSE IF input.ray = None \/ input.left # "released"
       THEN UNCHANGED << spawn_mode, events, crashed >>
       ELSE LET ray == unwrap(input.ray)
            IN  /\ UNCHANGED crashed
                /\ IF spawn_mode.tag = "EclipticPosSelect"
                   THEN /\ spawn_mode' = ModeHeightSelect(ray.ground)
                        /\ UNCHANGED events
                   ELSE IF spawn_mode.tag = "HeightSelect"
                   THEN /\ spawn_mode' = ModeRadiusSelect(
                               spawn_mode.chosen_ecliptic_pos,
                               VAdd(spawn_mode.chosen_ecliptic_pos,
                                    <<0, ray.lift, 0>>))
                        /\ UNCHANGED events
                   ELSE /\ events' = Append(events,
                               [ pos  |-> Some(spawn_mode.chosen_pos),
                                 vel  |-> None,
                                 mass |-> Some(mass_from_radius(
                                              drag_radius(ray.reach))) ])
                        /\ spawn_mode' = ModeNothing
    /\ Finish("Update", "planet_spawn_interaction_system", UpdateSystems,
              "PostUpdate")
    /\ UNCHANGED << frame, input, bodies, next_entity, collision_groups,
                    commands, right_panel_open, mouse_dot, pairs_log,
                    mass_at_update,
                    resolver_log, mode_at_frame >>

(***************************************************************************)
(* PostUpdate: physics_system (planet.rs:189-195).                         *)
(***************************************************************************)
\* integrated without the reset of net_force.
integrated_keeps_force(b) ==
    LET vel == VAdd(b.vel, VDiv(b.force, b.mass))
    IN  [b EXCEPT !.vel = vel, !.pos = VAdd(b.pos, vel)]

integrated(b) ==
    LET vel == VAdd(b.vel, VDiv(b.force, b.mass))
    IN  [b EXCEPT !.vel = vel, !.pos = VAdd(b.pos, vel), !.force = ZERO]

physics_system ==
    /\ Runnable("PostUpdate", "physics_system")
    /\ bodies' = [k \in 1..Len(bodies) |-> integrated(bodies[k])]
    /\ Finish("PostUpdate", "physics_system", PostUpdateSystems, "Apply")
    /\ UNCHANGED << frame, input, next_entity, events, collision_groups,
                    commands, spawn_mode, right_panel_open, mouse_dot,
                    crashed, pairs_log, mass_at_update,
                    resolver_log, mode_at_frame >>


(***************************************************************************)
(* PostUpdate: collision_resolution_system (collisions.rs:46-126).         *)
(***************************************************************************)
\* CollisionGroup::iter_all_planets
iter_all_planets(group) == <<group.largest>> \o group.members

\* .map(|p| p.mass).sum::<Mass>(): a fold from Mass::ZERO
RECURSIVE sum_mass(_)
sum_mass(ps) ==
    IF ps = <<>> THEN 0 ELSE FAdd(sum_mass(SubSeq(ps, 1, Len(ps) - 1)),
                                  ps[Len(ps)].mass)

\* .map(|p| p.mass.0 * p.vel.0).sum::<Vec3>()
RECURSIVE sum_momentum(_)
sum_momentum(ps) ==
    IF ps = <<>> THEN ZERO
    ELSE VAdd(sum_momentum(SubSeq(ps, 1, Len(ps) - 1)),
              VScale(ps[Len(ps)].mass, ps[Len(ps)].vel))

\* .map(|g| g.pos * g.mass.0).sum::<Vec3>()
RECURSIVE sum_moment(_)
sum_moment(ps) ==
    IF ps = <<>> THEN ZERO
    ELSE VAdd(sum_moment(SubSeq(ps, 1, Len(ps) - 1)),
              VScale(ps[Len(ps)].mass, ps[Len(ps)].pos))

\* The entry new_vels gets for a group (lines 73-96).
new_vels_entry(group) ==
    LET total_mass == sum_mass(iter_all_planets(group))
    IN  [ entity         |-> group.largest.entity,
          total_mass     |-> total_mass,
          new_v          |-> VDiv(sum_momentum(iter_all_planets(group)),
                                  total_mass),
          center_of_mass |-> VDiv(sum_moment(iter_all_planets(group)),
                                  total_mass) ]

\* resolved with the radius taken from the mass the body had before.
resolved_stale_radius(b, new_vels) ==
    IF b.mesh /\ \E k \in 1..Len(new_vels) : new_vels[k].entity = b.entity
    THEN LET nv == new_vels[CHOOSE k \in 1..Len(new_vels) :
                                new_vels[k].entity = b.entity]
         IN  [b EXCEPT !.vel = nv.new_v,
                       !.mass = nv.total_mass,
                       !.radius = radius_from_mass(b.mass),
                       !.pos = nv.center_of_mass]
    ELSE b

\* The second loop's body (lines 104-122): the query asks for a
\* Handle<Mesh>, so it yields only the bodies that have one.
resolved(b, new_vels) ==
    IF b.mesh /\ \E k \in 1..Len(new_vels) : new_vels[k].entity = b.entity
    THEN LET nv == new_vels[CHOOSE k \in 1..Len(new_vels) :
                                new_vels[k].entity = b.entity]
         IN  [b EXCEPT !.vel = nv.new_v,
                       !.mass = nv.total_mass,
                       !.radius = radius_from_mass(nv.total_mass),
                       !.pos = nv.center_of_mass]
    ELSE b

\* despawns_of with the largest of each group despawned as well.
RECURSIVE despawns_of_with_largest(_, _)
despawns_of_with_largest(groups, order) ==
    IF order = <<>> THEN <<>>
    ELSE <<groups[Head(order)].largest.entity>>
         \o [k \in 1..Len(groups[Head(order)].members) |->
                 groups[Head(order)].members[k].entity]
         \o despawns_of_with_largest(groups, Tail(order))

\* The despawn commands of the groups taken in the given order.
RECURSIVE despawns_of(_, _)
despawns_of(groups, order) ==
    IF order = <<>> THEN <<>>
    ELSE [k \in 1..Len(groups[Head(order)].members) |->
              groups[Head(order)].members[k].entity]
         \o despawns_of(groups, Tail(order))

\* The orders HashMap::values can yield n groups in.
Orders(n) == { o \in [1..n -> 1..n] : \A a, b \in 1..n : o[a] = o[b] => a = b }

\* A clear that leaves the map as it is.
clear_nothing(map) == map

\* collision_groups.map.clear() (line 125)
clear(map) == <<>>

collision_resolution_system ==
    /\ Runnable("PostUpdate", "collision_resolution_system")
    /\ LET new_vels == [k \in 1..Len(collision_groups) |->
                           new_vels_entry(collision_groups[k])]
       IN  /\ bodies' = [k \in 1..Len(bodies) |->
                             resolved(bodies[k], new_vels)]
           /\ resolver_log' =
                 [ groups  |-> collision_groups,
                   written |-> SelectSeq(bodies', LAMBDA b :
                                 b.mesh /\ \E k \in 1..Len(new_vels) :
                                     new_vels[k].entity = b.entity) ]
    /\ \E order \in Orders(Len(collision_groups)) :
          commands' = commands \o despawns_of(collision_groups, order)
    /\ collision_groups' = clear(collision_groups)
    /\ Finish("PostUpdate", "collision_resolution_system", PostUpdateSystems,
              "Apply")
    /\ UNCHANGED << frame, input, next_entity, events, spawn_mode,
                    right_panel_open, mouse_dot, crashed, pairs_log,
                    mass_at_update, mode_at_frame >>

(***************************************************************************)
(* The end of PostUpdate: apply_deferred runs the queued despawns.         *)
(***************************************************************************)
RECURSIVE RowOf(_, _, _)
RowOf(bs, entity, k) ==
    IF k > Len(bs) THEN 0
    ELSE IF bs[k].entity = entity THEN k
    ELSE RowOf(bs, entity, k + 1)

\* World::despawn: a swap_remove of the entity's table row; nothing when
\* the entity is already gone.  The Sun is the one row of its own table.
despawn(bs, entity) ==
    LET k == RowOf(bs, entity, 1)
        n == Len(bs)
    IN  IF k = 0 THEN bs
        ELSE IF ~bs[k].mesh THEN SubSeq(bs, 1, k - 1) \o SubSeq(bs, k + 1, n)
        ELSE SubSeq([bs EXCEPT ![k] = bs[n]], 1, n - 1)

RECURSIVE despawn_all(_, _)
despawn_all(bs, cmds) ==
    IF cmds = <<>> THEN bs
    ELSE despawn_all(despawn(bs, Head(cmds)), Tail(cmds))

apply_deferred ==
    /\ ~crashed
    /\ stage = "Apply"
    /\ bodies' = despawn_all(bodies, commands)
    /\ commands' = <<>>
    /\ stage' = "First"
    /\ UNCHANGED << frame, ran, input, next_entity, events, collision_groups,
                    spawn_mode, right_panel_open, mouse_dot, crashed,
                    pairs_log, mass_at_update,
                    resolver_log, mode_at_frame, done >>

(***************************************************************************)
(* The program.                                                            *)
(***************************************************************************)
Next ==
    \/ BeginFrame
    \/ spawn_planet_system
    \/ nbody_system
    \/ mouse_attraction_system
    \/ root_ui_system
    \/ planet_spawn_interaction_system
    \/ physics_system
    \/ collision_resolution_system
    \/ apply_deferred

\* The program from startup, the user at most holding the left button.
Spec == Init /\ [][Next]_vars

NextUi ==
    \/ BeginFrameUi
    \/ spawn_planet_system
    \/ nbody_system
    \/ mouse_attraction_system
    \/ root_ui_system
    \/ planet_spawn_interaction_system
    \/ physics_system
    \/ collision_resolution_system
    \/ apply_deferred

\* The program from a startup without planets, the user typing and clicking.
SpecUi == InitWith(0) /\ [][NextUi]_vars

(***************************************************************************)
(* Properties.                                                             *)
(***************************************************************************)
\* The snapshots of a group: `largest`, then `members`.
Snapshots(g) == <<g.largest>> \o g.members

RECURSIVE SnapshotMass(_)
SnapshotMass(ps) ==
    IF ps = <<>> THEN 0 ELSE Head(ps).mass + SnapshotMass(Tail(ps))

RECURSIVE SnapshotMomentum(_)
SnapshotMomentum(ps) ==
    IF ps = <<>> THEN ZERO
    ELSE VAdd(VScale(Head(ps).mass, Head(ps).vel), SnapshotMomentum(Tail(ps)))

RECURSIVE SnapshotMoment(_)
SnapshotMoment(ps) ==
    IF ps = <<>> THEN ZERO
    ELSE VAdd(VScale(Head(ps).mass, Head(ps).pos), SnapshotMoment(Tail(ps)))

Divides(m, v) ==
    /\ m > 0
    /\ ~VHasNaN(v)
    /\ \A c \in 1..3 : v[c] % m = 0

FrameDone == stage = "First" /\ frame >= 1

\* nbody_system has run this frame and the resolver has not yet.
Scanned ==
    \/ stage = "Update" /\ "nbody_system" \in ran
    \/ stage = "PostUpdate" /\ "collision_resolution_system" \notin ran

\* The resolver has run this frame.
Resolved ==
    \/ stage = "PostUpdate" /\ "collision_resolution_system" \in ran
    \/ stage = "Apply"
    \/ FrameDone

RECURSIVE MemberEntries(_, _)
MemberEntries(groups, entity) ==
    IF groups = <<>> THEN 0
    ELSE Len(SelectSeq(Head(groups).members, LAMBDA p : p.entity = entity))
         + MemberEntries(Tail(groups), entity)

\* C2: after the pairwise scan every body is a member entry of the group
\* map at most once, over all groups.
C2_MemberOfAtMostOneGroup ==
    Scanned => \A k \in 1..Len(bodies) :
                  MemberEntries(collision_groups, bodies[k].entity) <= 1

\* C3: for every pair the force pass found apart, the vector it added to
\* the first body's net_force is the negation of the one it added to the
\* second's.
C3_ThirdLaw ==
    \A k \in 1..Len(pairs_log) :
        ~pairs_log[k].collided
            => pairs_log[k].add1 = VNeg(pairs_log[k].add2)

\* The body the resolver wrote for the group, if it wrote one.
WrittenFor(g) ==
    SelectSeq(resolver_log.written,
              LAMBDA w : w.entity = g.largest.entity)

\* C4: for every group the resolver read, it wrote its surviving body a
\* mass equal to the sum of the snapshot masses of largest and members.
C4_GroupMassWritten ==
    Resolved => \A k \in 1..Len(resolver_log.groups) :
        LET g == resolver_log.groups[k]
        IN  /\ Len(WrittenFor(g)) = 1
            /\ WrittenFor(g)[1].mass = SnapshotMass(Snapshots(g))

\* C5: for every group the resolver read, it wrote its surviving body a
\* velocity and a mass whose product, when the division was exact, is the
\* sum of mass times velocity over the snapshots.
C5_GroupMomentumWritten ==
    Resolved => \A k \in 1..Len(resolver_log.groups) :
        LET g == resolver_log.groups[k]
            p == SnapshotMomentum(Snapshots(g))
        IN  /\ Len(WrittenFor(g)) = 1
            /\ Divides(SnapshotMass(Snapshots(g)), p)
                  => VScale(WrittenFor(g)[1].mass, WrittenFor(g)[1].vel) = p

\* C6: every live body's radius is radius_from_mass of its mass.
C6_RadiusFromMass ==
    \A k \in 1..Len(bodies) :
        bodies[k].radius = radius_from_mass(bodies[k].mass)

\* C6 witness: a body lives on with the mass and radius the resolver
\* wrote it on a merge, beside the Sun and the planets spawned.
C6_Witness ==
    /\ FrameDone
    /\ \E k \in 1..Len(bodies) : \E j \in 1..Len(resolver_log.written) :
          /\ bodies[k].entity = resolver_log.written[j].entity
          /\ bodies[k].mass = resolver_log.written[j].mass
          /\ bodies[k].radius # 3

\* The integrator has run this frame, or will not before the force pass.
Integrated ==
    \/ stage = "PostUpdate" /\ "physics_system" \in ran
    \/ stage \in {"Apply", "First", "PreUpdate"}
    \/ stage = "Update"
          /\ ran \cap {"nbody_system", "mouse_attraction_system"} = {}

\* C7: once the integrator has processed the bodies their net_force is
\* zero, and it still is when the next frame's force systems start.
C7_ZeroAccumulator ==
    Integrated => \A k \in 1..Len(bodies) : bodies[k].force = ZERO

\* C7 witness: the integrator has run in a frame whose force pass added
\* a non-zero vector to a body that is still there.
C7_Witness ==
    /\ stage = "Apply"
    /\ \E k \in 1..Len(pairs_log) : \E j \in 1..Len(bodies) :
          /\ ~pairs_log[k].collided
          /\ pairs_log[k].add2 # ZERO
          /\ bodies[j].entity = pairs_log[k].e2

\* The force pass has run this frame over the bodies as they still are.
PassDone == Scanned \/ (Resolved /\ stage # "First")

\* C8: one force pass over n bodies visits n(n-1)/2 pairs, each of two
\* different bodies, no unordered pair twice; no group has its largest
\* among its members.
C8_NoSelfInteraction ==
    PassDone =>
        /\ 2 * Len(pairs_log) = Len(bodies) * (Len(bodies) - 1)
        /\ \A k \in 1..Len(pairs_log) : pairs_log[k].e1 # pairs_log[k].e2
        /\ \A k, j \in 1..Len(pairs_log) :
              {pairs_log[k].e1, pairs_log[k].e2}
                  = {pairs_log[j].e1, pairs_log[j].e2} => k = j
        /\ \A k \in 1..Len(pairs_log) :
              {pairs_log[k].e1, pairs_log[k].e2}
                  \subseteq {bodies[j].entity : j \in 1..Len(bodies)}
        /\ \A k \in 1..Len(collision_groups) :
              MemberEntries(<<collision_groups[k]>>,
                            collision_groups[k].largest.entity) = 0

\* C8 witness: a pass over four bodies has visited six pairs and filled a
\* group.
C8_Witness ==
    /\ Scanned
    /\ Len(bodies) = 4
    /\ Len(pairs_log) = 6
    /\ collision_groups # <<>>

\* C9: when the force pass met exactly two bodies and found them
\* overlapping, the frame ends with one body, of the summed mass, the
\* momentum-weighted velocity and the mass-weighted position.
C9_TwoBodyMerge ==
    (FrameDone /\ Len(pairs_log) = 1 /\ pairs_log[1].collided) =>
        LET ps == Snapshots(resolver_log.groups[1])
            m  == SnapshotMass(ps)
        IN  /\ Len(bodies) = 1
            /\ bodies[1].mass = m
            /\ bodies[1].vel = VDiv(SnapshotMomentum(ps), m)
            /\ bodies[1].pos = VDiv(SnapshotMoment(ps), m)

\* C10: every live body has a mass greater than zero.
C10_PositiveMass == \A k \in 1..Len(bodies) : bodies[k].mass > 0


\* The live body with the given entity: a sequence of one body, or none.
LiveBody(entity) == SelectSeq(bodies, LAMBDA b : b.entity = entity)

\* C11: when a frame is over, the `largest` of every group its resolver
\* read is still live and has the group's summed mass, its
\* momentum-weighted velocity and its mass-weighted position.
C11_SurvivorPersists ==
    FrameDone => \A k \in 1..Len(resolver_log.groups) :
        LET g  == resolver_log.groups[k]
            ps == Snapshots(g)
            m  == SnapshotMass(ps)
            b  == LiveBody(g.largest.entity)
        IN  /\ Len(b) = 1
            /\ b[1].mass = m
            /\ b[1].vel = VDiv(SnapshotMomentum(ps), m)
            /\ b[1].pos = VDiv(SnapshotMoment(ps), m)


\* The step runs the system.
Fires(sys) == sys \in done' /\ sys \notin done

\* C12: the integrator runs only once the force pass and the attractor
\* coupling of the frame have run, and before the force systems of the
\* next frame; the resolver runs only once the force pass has visited all
\* the pairs.
C12_PhaseOrdering ==
    [][ /\ Fires("physics_system")
            => {"nbody_system", "mouse_attraction_system"} \subseteq done
        /\ Fires("collision_resolution_system")
            => /\ "nbody_system" \in done
               /\ 2 * Len(pairs_log) = Len(bodies) * (Len(bodies) - 1)
        /\ (Fires("nbody_system") \/ Fires("mouse_attraction_system"))
            => "physics_system" \notin done
        /\ (frame' = frame + 1 /\ frame >= 1) => "physics_system" \in done
      ]_vars

\* C12 witness: in the second frame, with the left button held on a
\* mouse dot, the integrator and the resolver have both run after a force
\* pass over several bodies.
C12_Witness ==
    /\ stage = "Apply"
    /\ frame = 2
    /\ input.left = "held"
    /\ mouse_dot # None
    /\ Len(pairs_log) >= 1
    /\ {"physics_system", "collision_resolution_system"} \subseteq done


\* The bodies PostUpdate leaves when physics_system runs before
\* collision_resolution_system, and when it runs after it.
PhysicsFirst ==
    LET new_vels == [k \in 1..Len(collision_groups) |->
                        new_vels_entry(collision_groups[k])]
    IN  [k \in 1..Len(bodies) |-> resolved(integrated(bodies[k]), new_vels)]

ResolverFirst ==
    LET new_vels == [k \in 1..Len(collision_groups) |->
                        new_vels_entry(collision_groups[k])]
    IN  [k \in 1..Len(bodies) |-> integrated(resolved(bodies[k], new_vels))]

\* The bodies Update leaves when nbody_system runs before
\* mouse_attraction_system, and when it runs after it.
ForcePassFirst ==
    LET st == nbody_loop(
                  [bs |-> bodies, groups |-> collision_groups, log |-> <<>>],
                  iter_combinations(1, 2, Len(bodies)), 1)
    IN  [k \in 1..Len(bodies) |-> mouse_attracted(st.bs[k], unwrap(mouse_dot))]

AttractorFirst ==
    nbody_loop(
        [ bs     |-> [k \in 1..Len(bodies) |->
                         mouse_attracted(bodies[k], unwrap(mouse_dot))],
          groups |-> collision_groups, log |-> <<>> ],
        iter_combinations(1, 2, Len(bodies)), 1).bs

\* C13: the bodies a frame leaves do not depend on the order in which the
\* scheduler runs the systems of one schedule: the force pass and the
\* attractor coupling commute, and so do the integrator and the resolver.
C13_DeterministicStep ==
    /\ (stage = "Update" /\ ran = {} /\ input.left = "held"
            /\ mouse_dot # None)
          => ForcePassFirst = AttractorFirst
    /\ (stage = "PostUpdate" /\ ran = {}) => PhysicsFirst = ResolverFirst


RECURSIVE MemberCount(_)
MemberCount(groups) ==
    IF groups = <<>> THEN 0
    ELSE Len(Head(groups).members) + MemberCount(Tail(groups))

\* What the k-th pair of the coming force pass finds and what it leaves.
PairStep(k) ==
    LET pairs  == iter_combinations(1, 2, Len(bodies))
        before == nbody_loop(
                      [ bs |-> bodies, groups |-> collision_groups,
                        log |-> <<>> ],
                      SubSeq(pairs, 1, k - 1), 1)
    IN  [ i |-> pairs[k][1], j |-> pairs[k][2], before |-> before,
          after |-> nbody_pair(before, pairs[k][1], pairs[k][2]) ]

\* C15: every pair of a force pass either overlaps, and then adds one
\* member entry to the group map and changes no body, or does not, and
\* then leaves the group map alone and changes only the net_force of its
\* two bodies, by the vectors it accumulates.
C15_CollisionXorForce ==
    (stage = "Update" /\ "nbody_system" \notin ran) =>
        \A k \in 1..(Len(bodies) * (Len(bodies) - 1)) \div 2 :
            LET s       == PairStep(k)
                b1      == s.before.bs[s.i]
                b2      == s.before.bs[s.j]
                overlap == FLt(length(VSub(b2.pos, b1.pos)),
                               FAdd(b1.radius, b2.radius))
                e       == s.after.log[Len(s.after.log)]
            IN  IF overlap
                THEN /\ MemberCount(s.after.groups)
                            = MemberCount(s.before.groups) + 1
                     /\ s.after.bs = s.before.bs
                ELSE /\ s.after.groups = s.before.groups
                     /\ s.after.bs =
                           [s.before.bs EXCEPT
                               ![s.i].force = VAdd(@, e.add1),
                               ![s.j].force = VAdd(@, e.add2)]

\* C15 witness: a force pass has found one pair overlapping and another
\* apart, on which it accumulated a non-zero vector.
C15_Witness ==
    /\ Scanned
    /\ \E k, j \in 1..Len(pairs_log) :
          /\ pairs_log[k].collided
          /\ ~pairs_log[j].collided
          /\ pairs_log[j].add2 # ZERO
    /\ collision_groups # <<>>


\* The live body with the entity, for an entity that is live.
BodyOf(entity) == LiveBody(entity)[1]

\* C16: for every pair the force pass found apart, the vector it added to
\* the first body's net_force is the attraction force itself,
\* G * m1 * m2 / (r^2 + softening) toward the second body, not yet divided
\* by a mass.
C16_ForceDividedOnce ==
    (stage = "Update" /\ "nbody_system" \in ran) =>
        \A k \in 1..Len(pairs_log) :
            LET a == BodyOf(pairs_log[k].e1)
                b == BodyOf(pairs_log[k].e2)
            IN  ~pairs_log[k].collided =>
                    pairs_log[k].add1
                        = attraction_force(a.mass, a.pos, b.mass, b.pos,
                                           grav_const, min_attraction_dist)


\* C17: the group map is empty from every run of the resolver until the
\* next force pass, and every member entry the resolver read was recorded
\* by the force pass of the same frame.
C17_GroupTableTransient ==
    /\ ( \/ stage \in {"First", "PreUpdate"}
         \/ stage = "Update" /\ "nbody_system" \notin ran
         \/ Resolved )
          => collision_groups = <<>>
    /\ Resolved =>
          \A k \in 1..Len(resolver_log.groups) :
              LET g == resolver_log.groups[k]
              IN  \A m \in 1..Len(g.members) :
                      \E p \in 1..Len(pairs_log) :
                          /\ pairs_log[p].collided
                          /\ {pairs_log[p].e1, pairs_log[p].e2}
                                = {g.largest.entity, g.members[m].entity}

\* C17 witness: the resolver of the second frame has read groups and left
\* the map empty.
C17_Witness ==
    /\ stage = "Apply"
    /\ frame = 2
    /\ resolver_log.groups # <<>>
    /\ collision_groups = <<>>


\* Some group has the first entity as its largest and the second among
\* its members.
Grouped(l, s) ==
    \E k \in 1..Len(collision_groups) :
        /\ collision_groups[k].largest.entity = l
        /\ \E m \in 1..Len(collision_groups[k].members) :
              collision_groups[k].members[m].entity = s

\* C18: after the force pass, of every pair found overlapping the body of
\* strictly higher mass is the largest of a group and the other one a
\* member of it, and with equal masses the second body of the pair is the
\* largest; so no member's snapshot mass exceeds that of its group's
\* largest.
C18_LargerSelection ==
    Scanned =>
        /\ \A k \in 1..Len(pairs_log) :
              LET e1 == pairs_log[k].e1
                  e2 == pairs_log[k].e2
              IN  pairs_log[k].collided =>
                      /\ BodyOf(e1).mass > BodyOf(e2).mass
                            => Grouped(e1, e2) /\ ~Grouped(e2, e1)
                      /\ BodyOf(e1).mass < BodyOf(e2).mass
                            => Grouped(e2, e1) /\ ~Grouped(e1, e2)
                      /\ BodyOf(e1).mass = BodyOf(e2).mass
                            => Grouped(e2, e1) /\ ~Grouped(e1, e2)
        /\ \A k \in 1..Len(collision_groups) :
              \A m \in 1..Len(collision_groups[k].members) :
                  collision_groups[k].members[m].mass
                      <= collision_groups[k].largest.mass

\* C18 witness: a force pass has found overlapping a pair of equal masses
\* and a pair of different masses.
C18_Witness ==
    /\ Scanned
    /\ \E k, j \in 1..Len(pairs_log) :
          /\ pairs_log[k].collided
          /\ pairs_log[j].collided
          /\ BodyOf(pairs_log[k].e1).mass = BodyOf(pairs_log[k].e2).mass
          /\ BodyOf(pairs_log[j].e1).mass # BodyOf(pairs_log[j].e2).mass


\* The entities of a list of bodies, and the entities of the member
\* entries of a group map.
Entities(bs) == {bs[k].entity : k \in 1..Len(bs)}

Members(groups) ==
    UNION { {groups[k].members[m].entity : m \in 1..Len(groups[k].members)} :
                k \in 1..Len(groups) }

\* C19: no step before the deferred despawns of a frame removes a body,
\* and those remove exactly the bodies that the frame's resolver read as
\* members of a group.
C19_OnlyMergesDestroy ==
    [][ /\ stage # "Apply" => Entities(bodies) \subseteq Entities(bodies')
        /\ stage = "Apply"
              => Entities(bodies')
                    = Entities(bodies) \ Members(resolver_log.groups)
      ]_vars

\* C19 witness: a frame has ended with every member of its groups removed
\* and other bodies still live beside the Sun.
C19_Witness ==
    /\ FrameDone
    /\ Members(resolver_log.groups) # {}
    /\ Members(resolver_log.groups) \cap Entities(bodies) = {}
    /\ Len(bodies) >= 3


\* The stage number of a PlanetSpawnMode along the placement cycle.
StageOf(mode) ==
    CASE mode.tag = "Nothing"           -> 0
      [] mode.tag = "EclipticPosSelect" -> 1
      [] mode.tag = "HeightSelect"      -> 2
      [] mode.tag = "RadiusSelect"      -> 3

\* to is the stage that follows from in the cycle Nothing, EclipticPosSelect,
\* HeightSelect, RadiusSelect, Nothing.
NextStage(from, to) ==
    /\ StageOf(to) = (StageOf(from) + 1) % 4
    /\ (from.tag = "HeightSelect"
           => to.chosen_ecliptic_pos = from.chosen_ecliptic_pos)

\* go_back as the claim states it: one stage back, Nothing stays, the
\* chosen ecliptic position is kept on leaving RadiusSelect, and three calls
\* reach Nothing.
GoBackLaw(mode) ==
    /\ StageOf(go_back(mode))
           = (IF StageOf(mode) = 0 THEN 0 ELSE StageOf(mode) - 1)
    /\ (mode.tag = "RadiusSelect"
           => go_back(mode).chosen_ecliptic_pos = mode.chosen_ecliptic_pos)
    /\ go_back(go_back(go_back(mode))) = ModeNothing

\* C20: within one frame the spawn mode stays, advances by exactly one stage
\* of the cycle Nothing, EclipticPosSelect, HeightSelect, RadiusSelect,
\* Nothing, or, on Escape, is the go_back of the mode the frame began with;
\* planet_spawn_interaction_system sends a spawn request only on a release
\* of the left button in RadiusSelect, exactly one, and leaves the mode
\* Nothing; go_back moves one stage back, keeps the chosen ecliptic position,
\* reaches Nothing within three calls, and the frame's Escape sends no
\* spawn request.
C20_SpawnModeMachine ==
    [][ /\ \/ spawn_mode' = mode_at_frame'
           \/ NextStage(mode_at_frame', spawn_mode')
           \/ /\ input'.key = "Escape"
              /\ spawn_mode' = go_back(mode_at_frame')
        /\ (Fires("planet_spawn_interaction_system") /\ events' # events)
              => /\ spawn_mode.tag = "RadiusSelect"
                 /\ input.left = "released"
                 /\ Len(events') = Len(events) + 1
                 /\ spawn_mode' = ModeNothing
        /\ (Fires("root_ui_system") /\ input.key = "Escape")
              => /\ events' = events
                 /\ spawn_mode' \in {spawn_mode, go_back(spawn_mode)}
        /\ GoBackLaw(spawn_mode')
      ]_vars

=============================================================================
